---- MODULE Spec2Model ----
(***************************************************************************)
(* A model of calculator.py: NumberBaseConverter, ExpressionEvaluator,     *)
(* HistoryManager and the calculate / clear_history handlers of            *)
(* CalculatorUI.                                                           *)
(*                                                                         *)
(* Text is a sequence of one-character strings.  A Python float is a       *)
(* record; see Flt (converter) and the value records of the evaluator.     *)
(***************************************************************************)
EXTENDS Integers, Sequences, FiniteSets, TLC

(***************************************************************************)
(* Bounds of the model                                                     *)
(***************************************************************************)
\* longest free-form text handed to to_decimal
MaxTextLen == 2
\* largest magnitude of the integers rendered for the round trips
MaxInt == 40
\* largest integer handed to int_to_roman (the code accepts 1..3999)
MaxRomanInput == 4001
\* longest ledger the history specifications build
MaxHist == 3

VARIABLES
    cv_text,       \* converter: the text handed to to_decimal
    cv_base,       \* converter: from_base
    cv_to,         \* converter: to_base
    cv_dec,        \* converter: what to_decimal returned
    cv_out,        \* converter: what from_decimal returned
    cv_pc,         \* converter: "start" | "dec" | "out"
    rm_num,        \* roman: the integer handed to int_to_roman
    rm_text,       \* roman: what int_to_roman returned (or raised)
    rm_back,       \* roman: what roman_to_int returned (or raised)
    rm_pc,         \* roman: "start" | "enc" | "dec"
    ev_expr,       \* evaluator: the expr handed to evaluate
    ev_mode,       \* evaluator: the angle_mode handed to evaluate
    ev_out,        \* evaluator: what evaluate returned or raised
    ev_pc,         \* evaluator: "start" | "done"
    history,       \* HistoryManager.history: the pairs <<expression, result>>
    hm_call,       \* the last call made on the HistoryManager
    hm_ret,        \* what the last call returned, when it was get_history
    hm_before,     \* history as it was before the last call
    hm_log,        \* the pairs handed to add_entry since the last clear
    display,       \* CalculatorUI.display: the text of the line edit
    angle_mode,    \* CalculatorUI.angle_mode
    history_list,  \* CalculatorUI.history_list: the items shown
    ui_error,      \* the message of the error box the last handler showed
    ui_call        \* the last handler run, what it read and what evaluate did

cvVars == <<cv_text, cv_base, cv_to, cv_dec, cv_out, cv_pc>>
rmVars == <<rm_num, rm_text, rm_back, rm_pc>>
evVars == <<ev_expr, ev_mode, ev_out, ev_pc>>
hmGhost == <<hm_call, hm_ret, hm_before, hm_log>>
hmVars == <<history, hmGhost>>
uiVars == <<display, angle_mode, history_list, ui_error, ui_call>>
vars == <<cvVars, rmVars, evVars, hmVars, uiVars>>

(***************************************************************************)
(* Characters                                                              *)
(***************************************************************************)
\* to_custom_base's digit string (line 116), one character per element
digits ==
    << "0","1","2","3","4","5","6","7","8","9",
       "A","B","C","D","E","F","G","H","I","J","K","L","M",
       "N","O","P","Q","R","S","T","U","V","W","X","Y","Z" >>

\* the same digits as Python prints them in bin / oct / hex (lower case)
lowerDigits ==
    << "0","1","2","3","4","5","6","7","8","9",
       "a","b","c","d","e","f","g","h","i","j","k","l","m",
       "n","o","p","q","r","s","t","u","v","w","x","y","z" >>

\* str.upper on one character
Upper(c) ==
    IF \E i \in 11..36 : lowerDigits[i] = c
    THEN digits[CHOOSE i \in 11..36 : lowerDigits[i] = c]
    ELSE c

\* str.upper
UpperStr(s) == [i \in 1..Len(s) |-> Upper(s[i])]

\* the value of a digit character in int(text, base): 0..35, or -1
DigitVal(c) ==
    IF \E i \in 1..36 : digits[i] = Upper(c)
    THEN (CHOOSE i \in 1..36 : digits[i] = Upper(c)) - 1
    ELSE -1

\* str.isspace on the characters the model's texts hold
IsSpace(c) == c = " "

RECURSIVE LStrip(_)
LStrip(s) ==
    IF s # <<>> /\ IsSpace(Head(s)) THEN LStrip(Tail(s)) ELSE s

RECURSIVE RStrip(_)
RStrip(s) ==
    IF s # <<>> /\ IsSpace(s[Len(s)]) THEN RStrip(SubSeq(s, 1, Len(s) - 1)) ELSE s

\* str.strip
Strip(s) == RStrip(LStrip(s))

\* s[k:] of Python, k >= 0
DropFirst(s, k) == SubSeq(s, k + 1, Len(s))

RECURSIVE Reversed(_)
Reversed(s) ==
    IF s = <<>> THEN <<>> ELSE Append(Reversed(Tail(s)), Head(s))

Abs(i) == IF i < 0 THEN -i ELSE i

(***************************************************************************)
(* Python's int(text, base) and float(text), float -> int, str(float)      *)
(***************************************************************************)
\* Optional[...] of the converter: ok = FALSE is None / a raised ValueError
None == [ok |-> FALSE, neg |-> FALSE, num |-> 0, den |-> 1]
NoText == [ok |-> FALSE, s |-> <<>>]

\* a float: (-1)^neg * num / den, den a power of ten, in lowest decimal form
RECURSIVE Flt(_, _, _)
Flt(neg, num, den) ==
    IF den > 1 /\ num % 10 = 0 THEN Flt(neg, num \div 10, den \div 10)
    ELSE [ok |-> TRUE, neg |-> neg, num |-> num, den |-> den]

\* float(i) of an int
FloatOfInt(i) == Flt(i < 0, Abs(i), 1)

\* int(value) of a float: truncation toward zero
IntOfFloat(f) == IF f.neg THEN -(f.num \div f.den) ELSE f.num \div f.den

\* digits and single underscores between them, each digit below base:
\* the value, or -1.  acc is the value so far, st is "first" (a digit or, after
\* a prefix, an underscore may come), "digit" (after a digit) or "us" (after
\* an underscore).
RECURSIVE DigitRun(_, _, _, _, _)
DigitRun(s, base, acc, st, usFirst) ==
    IF s = <<>> THEN (IF st = "digit" THEN acc ELSE -1)
    ELSE IF Head(s) = "_"
         THEN IF st = "digit" \/ (st = "first" /\ usFirst)
              THEN DigitRun(Tail(s), base, acc, "us", usFirst)
              ELSE -1
         ELSE IF DigitVal(Head(s)) >= 0 /\ DigitVal(Head(s)) < base
              THEN DigitRun(Tail(s), base, acc * base + DigitVal(Head(s)), "digit", usFirst)
              ELSE -1

\* the letter of the literal prefix int() accepts for this base
PrefixLetter(base) ==
    IF base = 2 THEN "B" ELSE IF base = 8 THEN "O" ELSE IF base = 16 THEN "X" ELSE ""

HasPrefix(s, base) ==
    /\ Len(s) >= 2
    /\ s[1] = "0"
    /\ PrefixLetter(base) # ""
    /\ Upper(s[2]) = PrefixLetter(base)

\* int(text, base): [ok, val]; ok = FALSE is ValueError.  base 0 (literal
\* auto-detection) is not among the inputs of the model.
PyInt(text, base) ==
    LET s == Strip(text)
        signed == s # <<>> /\ Head(s) \in {"-", "+"}
        body == IF signed THEN Tail(s) ELSE s
        pre == HasPrefix(body, base)
        run == IF pre THEN DropFirst(body, 2) ELSE body
        v == DigitRun(run, base, 0, "first", pre)
    IN IF base < 2 \/ base > 36 \/ v < 0
       THEN [ok |-> FALSE, val |-> 0]
       ELSE [ok |-> TRUE, val |-> IF signed /\ Head(s) = "-" THEN -v ELSE v]

RECURSIVE Pow10(_)
Pow10(k) == IF k = 0 THEN 1 ELSE 10 * Pow10(k - 1)

\* the text without its underscores
RECURSIVE NoUnderscores(_)
NoUnderscores(s) ==
    IF s = <<>> THEN <<>>
    ELSE IF Head(s) = "_" THEN NoUnderscores(Tail(s))
    ELSE <<Head(s)>> \o NoUnderscores(Tail(s))

\* float(text) on sign, digits (single underscores between them) and one
\* decimal point (the texts of the model hold no exponent, "inf" or "nan"):
\* a float, or None for ValueError
PyFloat(text) ==
    LET s == Strip(text)
        signed == s # <<>> /\ Head(s) \in {"-", "+"}
        body == IF signed THEN Tail(s) ELSE s
        dots == {i \in 1..Len(body) : body[i] = "."}
        ip == IF dots = {} THEN body ELSE SubSeq(body, 1, (CHOOSE i \in dots : TRUE) - 1)
        fp == IF dots = {} THEN <<>> ELSE DropFirst(body, CHOOSE i \in dots : TRUE)
        iv == IF ip = <<>> THEN 0 ELSE DigitRun(ip, 10, 0, "first", FALSE)
        fv == IF fp = <<>> THEN 0 ELSE DigitRun(fp, 10, 0, "first", FALSE)
        scale == Pow10(Len(NoUnderscores(fp)))
    IN IF Cardinality(dots) > 1 \/ iv < 0 \/ fv < 0 \/ (ip = <<>> /\ fp = <<>>)
       THEN None
       ELSE Flt(signed /\ Head(s) = "-", iv * scale + fv, scale)

\* the digits of a natural number in a base, most significant first ("0" for 0)
RECURSIVE NatDigits(_, _, _)
NatDigits(n, base, alphabet) ==
    IF n < base THEN <<alphabet[n + 1]>>
    ELSE Append(NatDigits(n \div base, base, alphabet), alphabet[(n % base) + 1])

\* the decimal digits of the fraction num/den (< 1), den = 10^k: k digits
RECURSIVE FracDigits(_, _)
FracDigits(num, den) ==
    IF den = 1 THEN <<>>
    ELSE <<digits[num \div (den \div 10) + 1]>> \o FracDigits(num % (den \div 10), den \div 10)

\* str(value) of a float (no exponent form arises for the model's magnitudes)
PyStrFloat(f) ==
    (IF f.neg THEN <<"-">> ELSE <<>>)
    \o NatDigits(f.num \div f.den, 10, digits)
    \o <<".">>
    \o (IF f.den = 1 THEN <<"0">> ELSE FracDigits(f.num % f.den, f.den))

\* bin(i), oct(i), hex(i): sign, "0b" / "0o" / "0x", lower-case digits
PyBaseLiteral(i, base, letter) ==
    (IF i < 0 THEN <<"-">> ELSE <<>>) \o <<"0", letter>> \o NatDigits(Abs(i), base, lowerDigits)

(***************************************************************************)
(* NumberBaseConverter                                                     *)
(***************************************************************************)
\* ROMAN_MAP (lines 18-22)
ROMAN_MAP ==
    << <<1000, <<"M">> >>, <<900, <<"C","M">> >>, <<500, <<"D">> >>, <<400, <<"C","D">> >>,
       <<100, <<"C">> >>, <<90, <<"X","C">> >>, <<50, <<"L">> >>, <<40, <<"X","L">> >>,
       <<10, <<"X">> >>, <<9, <<"I","X">> >>, <<5, <<"V">> >>, <<4, <<"I","V">> >>,
       <<1, <<"I">> >> >>

\* numeral * count
RECURSIVE Repeat(_, _)
Repeat(s, count) == IF count = 0 THEN <<>> ELSE s \o Repeat(s, count - 1)

\* the loop of int_to_roman from entry k of ROMAN_MAP on
RECURSIVE RomanLoop(_, _)
RomanLoop(num, k) ==
    IF k > Len(ROMAN_MAP) THEN <<>>
    ELSE LET value == ROMAN_MAP[k][1]
             numeral == ROMAN_MAP[k][2]
             count == num \div value
         IN Repeat(numeral, count) \o RomanLoop(num - value * count, k + 1)

\* int_to_roman(num): [ok, s]; ok = FALSE is the ValueError of line 78
int_to_roman(num) ==
    IF num <= 0 \/ num >= 4000 THEN NoText
    ELSE [ok |-> TRUE, s |-> RomanLoop(num, 1)]

\* roman_values (line 91); 0 for a character that is not a key
roman_values(c) ==
    CASE c = "I" -> 1 [] c = "V" -> 5 [] c = "X" -> 10 [] c = "L" -> 50
      [] c = "C" -> 100 [] c = "D" -> 500 [] c = "M" -> 1000 [] OTHER -> 0

\* roman_to_int's loop with the comparison of line 100 as value <= prev_value
RECURSIVE RomanScanLe(_, _, _)
RomanScanLe(rev, total, prev_value) ==
    IF rev = <<>> THEN [ok |-> TRUE, val |-> total]
    ELSE LET value == roman_values(Head(rev))
         IN IF value = 0 THEN [ok |-> FALSE, val |-> 0]
            ELSE IF value <= prev_value
                 THEN RomanScanLe(Tail(rev), total - value, value)
                 ELSE RomanScanLe(Tail(rev), total + value, value)

\* the loop of roman_to_int over the reversed text: [ok, val], ok = FALSE for
\* the ValueError of line 98
RECURSIVE RomanScan(_, _, _)
RomanScan(rev, total, prev_value) ==
    IF rev = <<>> THEN [ok |-> TRUE, val |-> total]
    ELSE LET value == roman_values(Head(rev))
         IN IF value = 0 THEN [ok |-> FALSE, val |-> 0]
            ELSE IF value < prev_value
                 THEN RomanScan(Tail(rev), total - value, value)
                 ELSE RomanScan(Tail(rev), total + value, value)

\* roman_to_int(roman): [ok, val]
roman_to_int(roman) == RomanScan(Reversed(UpperStr(roman)), 0, 0)

\* to_custom_base(num, base): [ok, s]
to_custom_base(num, base) ==
    IF base < 2 \/ base > 36 THEN NoText
    ELSE IF num = 0 THEN [ok |-> TRUE, s |-> <<"0">>]
    ELSE [ok |-> TRUE,
          s |-> (IF num < 0 THEN <<"-">> ELSE <<>>) \o NatDigits(Abs(num), base, digits)]

\* to_decimal(value, from_base): a float, or None
to_decimal(value, from_base) ==
    IF from_base = 10 THEN PyFloat(value)
    ELSE IF from_base \in {2, 8, 16}
         THEN (IF PyInt(value, from_base).ok THEN FloatOfInt(PyInt(value, from_base).val) ELSE None)
    ELSE IF from_base = -1
         THEN (IF roman_to_int(value).ok THEN FloatOfInt(roman_to_int(value).val) ELSE None)
    ELSE (IF PyInt(value, from_base).ok THEN FloatOfInt(PyInt(value, from_base).val) ELSE None)

\* from_decimal(value, to_base): [ok, s]; ok = FALSE is None
from_decimal(value, to_base) ==
    LET int_value == IntOfFloat(value)
    IN IF to_base = 10 THEN [ok |-> TRUE, s |-> PyStrFloat(value)]
       ELSE IF to_base = 2 THEN [ok |-> TRUE, s |-> DropFirst(PyBaseLiteral(int_value, 2, "b"), 2)]
       ELSE IF to_base = 8 THEN [ok |-> TRUE, s |-> DropFirst(PyBaseLiteral(int_value, 8, "o"), 2)]
       ELSE IF to_base = 16
            THEN [ok |-> TRUE, s |-> UpperStr(DropFirst(PyBaseLiteral(int_value, 16, "x"), 2))]
       ELSE IF to_base = -1 THEN int_to_roman(int_value)
       ELSE to_custom_base(int_value, to_base)

(***************************************************************************)
(* ExpressionEvaluator: the text steps of sanitize_expression and evaluate *)
(***************************************************************************)
IsDigit(c) == c \in {"0", "1", "2", "3", "4", "5", "6", "7", "8", "9"}

\* the characters re.split(r'[\+\-\*/\(\)]', expr) splits on (line 142)
SplitChars == {"+", "-", "*", "/", "(", ")"}

\* re.split on single separator characters: the parts, in order
RECURSIVE ReSplit(_, _)
ReSplit(s, seps) ==
    IF \A i \in 1..Len(s) : s[i] \notin seps THEN <<s>>
    ELSE LET i == CHOOSE k \in 1..Len(s) :
                     s[k] \in seps /\ \A j \in 1..(k - 1) : s[j] \notin seps
         IN <<SubSeq(s, 1, i - 1)>> \o ReSplit(DropFirst(s, i), seps)

\* part.count(c)
Count(part, c) == Cardinality({i \in 1..Len(part) : part[i] = c})

\* sanitize_expression(expr): [ok, s]; ok = FALSE is the ValueError of line 145
sanitize_expression(expr) ==
    LET stripped == Strip(expr)
        parts == ReSplit(stripped, SplitChars)
    IN IF \E k \in 1..Len(parts) : Count(parts[k], ".") > 1
       THEN [ok |-> FALSE, s |-> <<>>]
       ELSE [ok |-> TRUE, s |-> stripped]

\* the character \0 of the pattern of line 154 (chr(0)); no text of the model
\* holds it
NUL == "\\0"

\* the first position >= i of s that does not hold a character of set
RECURSIVE SkipWhile(_, _, _)
SkipWhile(s, i, set) ==
    IF i <= Len(s) /\ s[i] \in set THEN SkipWhile(s, i + 1, set) ELSE i

\* (?:[^\d]|$) at position p
NonDigitOrEnd(s, p) == p > Len(s) \/ ~IsDigit(s[p])

\* the pattern of line 154 matched with its '/' at position i:
\*   /  \s*  0  (?:\.\0*)?  (?:[^\d]|$)
DivZeroMatchAt(s, i) ==
    /\ s[i] = "/"
    /\ LET j == SkipWhile(s, i + 1, {" "})
       IN /\ j <= Len(s)
          /\ s[j] = "0"
          /\ \/ NonDigitOrEnd(s, j + 1)
             \/ /\ j + 1 <= Len(s)
                /\ s[j + 1] = "."
                /\ \E k \in (j + 2)..SkipWhile(s, j + 2, {NUL}) : NonDigitOrEnd(s, k)

\* the search of line 154 with the pattern ending in $ only:  /\s*0(?:\.\0*)?$
DivZeroSearchEndOnly(s) ==
    \E i \in 1..Len(s) :
        /\ s[i] = "/"
        /\ LET j == SkipWhile(s, i + 1, {" "})
           IN /\ j <= Len(s)
              /\ s[j] = "0"
              /\ \/ j + 1 > Len(s)
                 \/ /\ s[j + 1] = "."
                    /\ SkipWhile(s, j + 2, {NUL}) > Len(s)

\* re.search(r'/\s*0(?:\.\0*)?(?:[^\d]|$)', expr) finds a match
DivZeroSearch(s) == \E i \in 1..Len(s) : DivZeroMatchAt(s, i)

\* expr.replace('^', '**')
RECURSIVE ReplaceCaret(_)
ReplaceCaret(s) ==
    IF s = <<>> THEN <<>>
    ELSE (IF Head(s) = "^" THEN <<"*", "*">> ELSE <<Head(s)>>) \o ReplaceCaret(Tail(s))

\* s holds the characters of w from position i on
StartsAt(s, i, w) ==
    /\ i + Len(w) - 1 <= Len(s)
    /\ \A k \in 1..Len(w) : s[i + k - 1] = w[k]

RADIANS == <<"r", "a", "d", "i", "a", "n", "s">>

\* re.sub(r'name\((.*?)\)', r'name(radians(\1))', s) from position i on:
\* leftmost matches, the group running to the first ')' after 'name('
RECURSIVE ReSubFrom(_, _, _)
ReSubFrom(name, s, i) ==
    IF i > Len(s) THEN <<>>
    ELSE LET open == i + Len(name)
             closes == {p \in (open + 1)..Len(s) : s[p] = ")"}
         IN IF StartsAt(s, i, name \o <<"(">>) /\ closes # {}
            THEN LET p == CHOOSE q \in closes : \A r \in closes : q <= r
                 IN name \o <<"(">> \o RADIANS \o <<"(">> \o SubSeq(s, open + 1, p - 1)
                    \o <<")", ")">> \o ReSubFrom(name, s, p + 1)
            ELSE <<s[i]>> \o ReSubFrom(name, s, i + 1)

ReSubCall(name, s) == ReSubFrom(name, s, 1)

SIN == <<"s", "i", "n">>
COS == <<"c", "o", "s">>
TAN == <<"t", "a", "n">>

\* lines 159-162: the three substitutions of degrees mode, in order
DegreesRewrite(s, mode) ==
    IF mode = "deg"
    THEN ReSubCall(TAN, ReSubCall(COS, ReSubCall(SIN, s)))
    ELSE s

(***************************************************************************)
(* The values of eval(expr, safe_dict, {}) (line 174).                     *)
(*                                                                         *)
(* A value is a record [k, n, d, hi, lo1, t]:                              *)
(*   k = "int"     a Python int, exactly n (d = 1)                         *)
(*   k = "float"   a finite float, exactly n / d, d a power of two         *)
(*   k = "sym"     a finite float x with |x| >= 2^-64, known by the term t *)
(*                 that computed it: n is its sign (0 when not known),     *)
(*                 hi > 0 bounds |x| <= hi, lo1 says |x| > 1               *)
(*   k = "fin"     a finite float, possibly zero, computed by the term t;  *)
(*                 hi > 0 bounds |x| <= hi                                 *)
(*   k = "rad"     the float radians(n / d) of a non-zero n / d            *)
(*   k = "inf"     an infinite float of sign n;  k = "nan" a NaN           *)
(*   k = "bigint"  an int too large to convert to float                    *)
(*   k = "func"    the function bound to the name t in safe_dict           *)
(*   k = "complex" a complex number                                        *)
(* The sign of a float zero is not tracked.                                *)
(***************************************************************************)
\* the largest numerator and denominator kept exactly
ExactCap == 1000000
MaxDen == 256

Value(k, n, d, hi, lo1, t) == [k |-> k, n |-> n, d |-> d, hi |-> hi, lo1 |-> lo1, t |-> t]

Sgn(i) == IF i > 0 THEN 1 ELSE IF i < 0 THEN -1 ELSE 0

RECURSIVE Gcd(_, _)
Gcd(a, b) == IF b = 0 THEN a ELSE Gcd(b, a % b)

RECURSIVE IsPow2(_)
IsPow2(d) == d = 1 \/ (d % 2 = 0 /\ IsPow2(d \div 2))

\* floor(log2(m)) of m >= 1
RECURSIVE FloorLog2(_)
FloorLog2(m) == IF m < 2 THEN 0 ELSE 1 + FloorLog2(m \div 2)

Sym(sg, hi, lo1, t) == Value("sym", sg, 1, hi, lo1, t)
Fin(hi, t) == Value("fin", 0, 1, hi, FALSE, t)
Inf(sg) == Value("inf", sg, 1, 0, TRUE, <<>>)
NaN == Value("nan", 0, 1, 0, FALSE, <<>>)
Func(name) == Value("func", 0, 1, 0, FALSE, name)
Complex == Value("complex", 0, 1, 0, FALSE, <<>>)
BigInt(sg) == Value("bigint", sg, 1, 0, TRUE, <<>>)
PyInt0(n) == Value("int", n, 1, 0, FALSE, <<>>)

\* the number n / d (d # 0, |n| and |d| below 2^30) as a value of kind k ("int"
\* or "float"): exact when it is small and dyadic, else a sym named by the
\* fraction
MkNum(k, n, d) ==
    LET g == Gcd(Abs(n), Abs(d))
        nn == (IF d < 0 THEN -n ELSE n) \div g
        dd == Abs(d) \div g
    IN IF Abs(nn) <= ExactCap /\ dd <= MaxDen /\ IsPow2(dd)
       THEN Value(k, nn, dd, 0, FALSE, <<>>)
       ELSE Sym(Sgn(nn), Abs(nn) \div dd + 1, Abs(nn) > dd,
                <<"q", ToString(nn), ToString(dd)>>)

PyFloat0(n, d) == MkNum("float", n, d)

IsExact(v) == v.k \in {"int", "float"}
IsZero(v) == IsExact(v) /\ v.n = 0
IsOne(v) == IsExact(v) /\ v.n = 1 /\ v.d = 1

\* the sign of a number: -1, 0 (zero, NaN), 1; 2 when the model does not know it
SignOf(v) ==
    IF v.k = "fin" \/ (v.k = "sym" /\ v.n = 0) THEN 2
    ELSE IF v.k = "nan" THEN 0
    ELSE Sgn(v.n)

\* an upper bound of |x|, 0 when none is known
HiOf(v) ==
    IF IsExact(v) THEN Abs(v.n) \div v.d + 1
    ELSE IF v.k = "rad" THEN Abs(v.n) \div (57 * v.d) + 1
    ELSE IF v.k \in {"sym", "fin"} THEN v.hi
    ELSE 0

\* |x| > 1 is known
Lo1Of(v) ==
    IF IsExact(v) THEN Abs(v.n) > v.d
    ELSE IF v.k = "rad" THEN Abs(v.n) > 58 * v.d
    ELSE v.lo1

\* |x| >= 1 is known
GeOne(v) == Lo1Of(v) \/ (IsExact(v) /\ Abs(v.n) >= v.d)

\* |x| <= 1: "yes", "no", or "unknown"
WithinOne(v) ==
    IF IsExact(v) THEN (IF Abs(v.n) <= v.d THEN "yes" ELSE "no")
    ELSE IF v.k = "rad"
         THEN (IF Abs(v.n) <= 57 * v.d THEN "yes"
               ELSE IF Abs(v.n) >= 58 * v.d THEN "no" ELSE "unknown")
    ELSE IF v.k \in {"inf", "bigint"} THEN "no"
    ELSE IF v.k = "sym" /\ v.lo1 THEN "no"
    ELSE IF v.k \in {"sym", "fin"} /\ v.hi = 1 THEN "yes"
    ELSE "unknown"

\* the term naming a value
TermOf(v) ==
    IF IsExact(v) THEN <<"q", ToString(v.n), ToString(v.d)>>
    ELSE IF v.k = "rad" THEN <<"rad", ToString(v.n), ToString(v.d)>>
    ELSE IF v.k \in {"sym", "fin"} THEN v.t
    ELSE <<v.k, ToString(v.n)>>

\* a step of the evaluation: a value, or the exception raised (e # "")
Ok(v) == [e |-> "", v |-> v]
Raise(e) == [e |-> e, v |-> NaN]
\* a case the model does not decide; no input of the specifications reaches it
Unmodelled == Raise("unmodelled")

\* -x
NegValue(v) ==
    IF IsExact(v) THEN Value(v.k, -v.n, v.d, 0, FALSE, <<>>)
    ELSE IF v.k \in {"sym", "fin"} /\ Len(v.t) > 0 /\ Head(v.t) = "neg"
         THEN Value(v.k, -v.n, 1, v.hi, v.lo1, Tail(v.t))
    ELSE IF v.k = "fin" THEN Fin(v.hi, <<"neg">> \o v.t)
    ELSE IF v.k \in {"sym", "rad"}
         THEN Sym(-Sgn(v.n), HiOf(v), Lo1Of(v), <<"neg">> \o TermOf(v))
    ELSE IF v.k \in {"inf", "bigint"} THEN Value(v.k, -v.n, 1, 0, TRUE, <<>>)
    ELSE v

\* the kind of the result of an operation on two exact operands
JoinKind(a, b) == IF a.k = "int" /\ b.k = "int" THEN "int" ELSE "float"

\* a * b of two naturals stays within ExactCap
MulFits(a, b) == b = 0 \/ a <= ExactCap \div b

\* the term of op applied to a and b
OpTerm(op, a, b) == <<op>> \o TermOf(a) \o TermOf(b)

\* a + b
AddValues(a, b) ==
    IF a.k = "func" \/ b.k = "func" THEN Raise("TypeError")
    ELSE IF a.k = "complex" \/ b.k = "complex" THEN Unmodelled
    ELSE IF a.k = "nan" \/ b.k = "nan" THEN Ok(NaN)
    ELSE IF a.k = "inf" /\ b.k = "inf" THEN (IF a.n = b.n THEN Ok(a) ELSE Ok(NaN))
    ELSE IF a.k = "inf" THEN Ok(a)
    ELSE IF b.k = "inf" THEN Ok(b)
    ELSE IF a.k = "bigint" \/ b.k = "bigint" THEN Unmodelled
    ELSE IF IsExact(a) /\ IsExact(b)
         THEN Ok(MkNum(JoinKind(a, b), a.n * b.d + b.n * a.d, a.d * b.d))
    ELSE IF IsZero(a) THEN Ok(b)
    ELSE IF IsZero(b) THEN Ok(a)
    ELSE IF TermOf(NegValue(a)) = TermOf(b) THEN Ok(PyFloat0(0, 1))
    ELSE LET sa == SignOf(a)
             sb == SignOf(b)
             hi == IF HiOf(a) > 0 /\ HiOf(b) > 0 /\ HiOf(a) + HiOf(b) <= ExactCap
                   THEN HiOf(a) + HiOf(b) ELSE 0
         IN IF HiOf(a) = 0 /\ HiOf(b) = 0 /\ ~(sa * sb = -1) THEN Unmodelled
            ELSE IF sa = sb /\ sa # 2
                 THEN Ok(Sym(sa, hi, Lo1Of(a) \/ Lo1Of(b), OpTerm("+", a, b)))
            ELSE Ok(Fin(hi, OpTerm("+", a, b)))

\* a - b
SubValues(a, b) ==
    IF a.k = "func" \/ b.k = "func" THEN Raise("TypeError")
    ELSE AddValues(a, NegValue(b))

\* a * b
MulValues(a, b) ==
    IF a.k = "func" \/ b.k = "func" THEN Raise("TypeError")
    ELSE IF a.k = "complex" \/ b.k = "complex" THEN Unmodelled
    ELSE IF a.k = "nan" \/ b.k = "nan" THEN Ok(NaN)
    ELSE IF a.k = "inf" \/ b.k = "inf"
         THEN (IF IsZero(a) \/ IsZero(b) THEN Ok(NaN)
               ELSE IF SignOf(a) = 2 \/ SignOf(b) = 2 THEN Unmodelled
               ELSE Ok(Inf(SignOf(a) * SignOf(b))))
    ELSE IF a.k = "bigint" \/ b.k = "bigint" THEN Unmodelled
    ELSE IF IsExact(a) /\ IsExact(b)
         THEN (IF MulFits(Abs(a.n), Abs(b.n))
               THEN Ok(MkNum(JoinKind(a, b), a.n * b.n, a.d * b.d))
               ELSE Ok(Sym(Sgn(a.n) * Sgn(b.n), 0, TRUE, OpTerm("*", a, b))))
    ELSE IF IsZero(a) \/ IsZero(b) THEN Ok(PyFloat0(0, 1))
    ELSE IF IsOne(a) THEN Ok(b)
    ELSE IF IsOne(b) THEN Ok(a)
    ELSE LET hi == IF HiOf(a) > 0 /\ HiOf(b) > 0 /\ MulFits(HiOf(a), HiOf(b))
                   THEN HiOf(a) * HiOf(b)
                   ELSE IF WithinOne(a) = "yes" THEN HiOf(b)
                   ELSE IF WithinOne(b) = "yes" THEN HiOf(a)
                   ELSE 0
         IN IF ~((HiOf(a) > 0 /\ HiOf(b) > 0) \/ WithinOne(a) = "yes" \/ WithinOne(b) = "yes")
            THEN Unmodelled
            ELSE IF a.k # "fin" /\ b.k # "fin" /\ (GeOne(a) \/ GeOne(b))
                 THEN Ok(Sym(IF SignOf(a) = 2 \/ SignOf(b) = 2 THEN 0
                             ELSE SignOf(a) * SignOf(b),
                             hi,
                             (Lo1Of(a) /\ GeOne(b)) \/ (GeOne(a) /\ Lo1Of(b)),
                             OpTerm("*", a, b)))
            ELSE Ok(Fin(hi, OpTerm("*", a, b)))

\* a / b
DivValues(a, b) ==
    IF a.k = "func" \/ b.k = "func" THEN Raise("TypeError")
    ELSE IF a.k = "complex" \/ b.k \in {"complex", "fin"} THEN Unmodelled
    ELSE IF IsZero(b) THEN Raise("ZeroDivisionError")
    ELSE IF a.k = "bigint" \/ b.k = "bigint" THEN Unmodelled
    ELSE IF a.k = "nan" \/ b.k = "nan" THEN Ok(NaN)
    ELSE IF a.k = "inf"
         THEN (IF b.k = "inf" THEN Ok(NaN)
               ELSE IF SignOf(b) = 2 THEN Unmodelled
               ELSE Ok(Inf(a.n * SignOf(b))))
    ELSE IF b.k = "inf" THEN Ok(PyFloat0(0, 1))
    ELSE IF IsExact(a) /\ IsExact(b)
         THEN (IF MulFits(Abs(a.n), b.d) /\ MulFits(Abs(b.n), a.d)
               THEN Ok(MkNum("float", a.n * b.d, a.d * b.n))
               ELSE Ok(Sym(Sgn(a.n) * Sgn(b.n), 0, FALSE, OpTerm("/", a, b))))
    ELSE IF IsZero(a) THEN Ok(PyFloat0(0, 1))
    ELSE IF TermOf(a) = TermOf(b) THEN Ok(PyFloat0(1, 1))
    ELSE IF IsOne(b) THEN Ok(a)
    ELSE IF ~(HiOf(a) > 0 \/ GeOne(b)) THEN Unmodelled
    ELSE IF a.k # "fin" /\ WithinOne(b) = "yes"
         THEN Ok(Sym(IF SignOf(a) = 2 \/ SignOf(b) = 2 THEN 0 ELSE SignOf(a) * SignOf(b),
                     0, Lo1Of(a), OpTerm("/", a, b)))
    ELSE Ok(Fin(IF GeOne(b) THEN HiOf(a) ELSE 0, OpTerm("/", a, b)))

\* x - y * floor(x / y) of the integers x and y # 0
FlooredMod(x, y) == IF y > 0 THEN x % y ELSE -((-x) % (-y))

\* a % b
ModValues(a, b) ==
    IF a.k = "func" \/ b.k = "func" THEN Raise("TypeError")
    ELSE IF a.k = "complex" \/ b.k \in {"complex", "fin"} THEN Unmodelled
    ELSE IF IsZero(b) THEN Raise("ZeroDivisionError")
    ELSE IF a.k = "bigint" \/ b.k = "bigint" THEN Unmodelled
    ELSE IF a.k \in {"nan", "inf"} \/ b.k = "nan" THEN Ok(NaN)
    ELSE IF b.k = "inf"
         THEN (IF IsZero(a) THEN Ok(PyFloat0(0, 1))
               ELSE IF SignOf(a) = 2 THEN Unmodelled
               ELSE IF SignOf(a) = b.n THEN Ok(IF a.k = "int" THEN PyFloat0(a.n, 1) ELSE a)
               ELSE Ok(b))
    ELSE IF IsExact(a) /\ IsExact(b)
         THEN (IF MulFits(Abs(a.n), b.d) /\ MulFits(Abs(b.n), a.d)
               THEN Ok(MkNum(JoinKind(a, b), FlooredMod(a.n * b.d, b.n * a.d), a.d * b.d))
               ELSE Unmodelled)
    ELSE IF IsZero(a) THEN Ok(PyFloat0(0, 1))
    ELSE IF TermOf(a) = TermOf(b) THEN Ok(PyFloat0(0, 1))
    ELSE Ok(Fin(HiOf(b), OpTerm("%", a, b)))

\* acc * x^e of naturals (x >= 2) when it stays within ExactCap, else -1
RECURSIVE NatPowFrom(_, _, _)
NatPowFrom(x, e, acc) ==
    IF e = 0 THEN acc
    ELSE IF ~MulFits(acc, x) THEN -1
    ELSE NatPowFrom(x, e - 1, acc * x)

\* x^e of naturals when it stays within ExactCap, else -1
NatPow(x, e) ==
    IF e = 0 THEN 1
    ELSE IF x <= 1 THEN x
    ELSE NatPowFrom(x, e, 1)

\* the natural r with r * r = m, or -1
NatSqrt(m) ==
    IF \E r \in 0..1000 : r * r = m THEN CHOOSE r \in 0..1000 : r * r = m ELSE -1

\* an upper bound of |log2 |x||, 0 when none is known
MagBits(v) ==
    IF IsExact(v)
    THEN (IF FloorLog2(Abs(v.n)) > FloorLog2(v.d) THEN FloorLog2(Abs(v.n)) ELSE FloorLog2(v.d)) + 1
    ELSE IF v.k = "sym" /\ v.hi > 0 /\ v.lo1 THEN FloorLog2(v.hi) + 1
    ELSE 0

\* a ** e of an exact a # 0 and an integer e # 0
PowExactInt(a, e, intResult) ==
    LET ae == Abs(e)
        bits == ae * MagBits(a)
        odd == ae % 2 = 1
        sg == IF a.n < 0 /\ odd THEN -1 ELSE 1
        pn == NatPow(Abs(a.n), ae)
        pd == NatPow(a.d, ae)
    IN IF bits >= 1000
       THEN (IF e > 0 /\ Abs(a.n) >= 2 * a.d /\ ae * FloorLog2(Abs(a.n) \div a.d) >= 1024
             THEN (IF intResult THEN Ok(BigInt(sg)) ELSE Raise("OverflowError"))
             ELSE Unmodelled)
       ELSE IF pn >= 0 /\ pd >= 0
            THEN (IF e > 0
                  THEN Ok(MkNum(IF intResult THEN "int" ELSE "float", sg * pn, pd))
                  ELSE Ok(MkNum("float", sg * pd, pn)))
       ELSE IF (Abs(a.n) > a.d) = (e > 0)
            THEN Ok(Sym(sg, 0, TRUE, <<"**">> \o TermOf(a) \o <<ToString(e)>>))
       ELSE Ok(Fin(1, <<"**">> \o TermOf(a) \o <<ToString(e)>>))

\* a ** b, and pow(a, b)
PowValues(a, b) ==
    IF a.k = "func" \/ b.k = "func" THEN Raise("TypeError")
    ELSE IF a.k = "complex" \/ b.k \in {"complex", "fin"} THEN Unmodelled
    ELSE IF IsZero(b)
         THEN Ok(IF a.k \in {"int", "bigint"} /\ b.k = "int" THEN PyInt0(1) ELSE PyFloat0(1, 1))
    ELSE IF IsOne(a)
         THEN Ok(IF a.k = "int" /\ b.k \in {"int", "bigint"} /\ b.n > 0
                 THEN PyInt0(1) ELSE PyFloat0(1, 1))
    ELSE IF a.k = "nan" \/ b.k = "nan" THEN Ok(NaN)
    ELSE IF a.k = "bigint" \/ b.k = "bigint" THEN Unmodelled
    ELSE IF IsZero(a)
         THEN (IF b.k = "inf" /\ b.n < 0 THEN Ok(Inf(1))
               ELSE IF SignOf(b) = 1
                    THEN Ok(IF a.k = "int" /\ b.k = "int" THEN PyInt0(0) ELSE PyFloat0(0, 1))
               ELSE IF SignOf(b) = -1 THEN Raise("ZeroDivisionError")
               ELSE Unmodelled)
    ELSE IF a.k = "inf"
         THEN (IF a.n = 1 /\ SignOf(b) = 1 THEN Ok(Inf(1))
               ELSE IF a.n = 1 /\ SignOf(b) = -1 THEN Ok(PyFloat0(0, 1))
               ELSE Unmodelled)
    ELSE IF b.k = "inf"
         THEN (IF IsOne(NegValue(a)) THEN Ok(PyFloat0(1, 1))
               ELSE IF WithinOne(a) = "no" THEN Ok(IF b.n = 1 THEN Inf(1) ELSE PyFloat0(0, 1))
               ELSE IF WithinOne(a) = "yes" THEN Ok(IF b.n = 1 THEN PyFloat0(0, 1) ELSE Inf(1))
               ELSE Unmodelled)
    ELSE IF SignOf(a) = 2 THEN Unmodelled
    ELSE IF IsExact(b) /\ b.d = 1
         THEN (IF IsExact(a) THEN PowExactInt(a, b.n, a.k = "int" /\ b.k = "int")
               ELSE IF IsOne(b) THEN Ok(a)
               ELSE IF MagBits(a) > 0 /\ Abs(b.n) * MagBits(a) < 1000 /\ b.n > 0
                    THEN Ok(Sym(IF SignOf(a) < 0 /\ b.n % 2 = 1 THEN -1 ELSE 1, 0, TRUE,
                                <<"**">> \o TermOf(a) \o TermOf(b)))
               ELSE Unmodelled)
    ELSE IF SignOf(a) < 0 THEN (IF IsExact(a) /\ IsExact(b) THEN Ok(Complex) ELSE Unmodelled)
    ELSE IF IsExact(a) /\ IsExact(b) /\ b.n = 1 /\ b.d = 2
            /\ NatSqrt(a.n) >= 0 /\ NatSqrt(a.d) >= 0
         THEN Ok(PyFloat0(NatSqrt(a.n), NatSqrt(a.d)))
    ELSE IF MagBits(a) > 0 /\ HiOf(b) > 0 /\ MulFits(HiOf(b), MagBits(a))
            /\ HiOf(b) * MagBits(a) < 1000
         THEN (IF Lo1Of(a) /\ SignOf(b) = 1 /\ b.k # "sym"
               THEN Ok(Sym(1, 0, TRUE, <<"**">> \o TermOf(a) \o TermOf(b)))
               ELSE Ok(Fin(0, <<"**">> \o TermOf(a) \o TermOf(b))))
    ELSE Unmodelled

\* the term of the function f applied to x
FnTerm(f, x) == <<f>> \o TermOf(x)

\* the sign of x for a sym result: 0 when not known
SgOf(x) == IF SignOf(x) = 2 THEN 0 ELSE SignOf(x)

\* math.radians(x)
FnRadians(x) ==
    IF x.k \in {"nan", "inf"} THEN Ok(x)
    ELSE IF IsZero(x) THEN Ok(PyFloat0(0, 1))
    ELSE IF IsExact(x) THEN Ok(Value("rad", x.n, x.d, 0, FALSE, <<>>))
    ELSE LET hi == IF HiOf(x) > 0 THEN HiOf(x) \div 57 + 1 ELSE 0
         IN IF x.k # "fin" /\ Lo1Of(x)
            THEN Ok(Sym(SgOf(x), hi, FALSE, FnTerm("radians", x)))
            ELSE Ok(Fin(hi, FnTerm("radians", x)))

\* math.degrees(x)
FnDegrees(x) ==
    IF x.k \in {"nan", "inf"} THEN Ok(x)
    ELSE IF IsZero(x) THEN Ok(PyFloat0(0, 1))
    ELSE IF HiOf(x) = 0 THEN Unmodelled
    ELSE LET hi == IF MulFits(HiOf(x), 58) THEN HiOf(x) * 58 ELSE 0
         IN IF x.k = "fin" THEN Ok(Fin(hi, FnTerm("degrees", x)))
            ELSE Ok(Sym(SgOf(x), hi, Lo1Of(x), FnTerm("degrees", x)))

\* the sign of sin(x) and of cos(x) where the model knows it (|x| below pi for
\* sin, away from pi/2 for cos), else 0
TrigSign(f, x) ==
    IF IsExact(x)
    THEN (IF f = "sin" THEN (IF Abs(x.n) <= 3 * x.d THEN Sgn(x.n) ELSE 0)
          ELSE (IF 2 * Abs(x.n) <= 3 * x.d THEN 1 ELSE 0))
    ELSE IF x.k = "rad"
    THEN (IF f = "sin" THEN (IF Abs(x.n) < 180 * x.d THEN Sgn(x.n) ELSE 0)
          ELSE IF Abs(x.n) < 90 * x.d THEN 1
          ELSE IF Abs(x.n) > 90 * x.d /\ Abs(x.n) < 270 * x.d THEN -1
          ELSE 0)
    ELSE 0

\* math.sin(x), math.cos(x): of a float x # 0 never 0, and of magnitude above
\* 2^-64 when |x| is
FnSinCos(f, x) ==
    IF x.k = "nan" THEN Ok(NaN)
    ELSE IF x.k = "inf" THEN Raise("ValueError")
    ELSE IF IsZero(x) THEN Ok(IF f = "sin" THEN PyFloat0(0, 1) ELSE PyFloat0(1, 1))
    ELSE IF f = "sin" /\ x.k = "rad" /\ x.n = 90 * x.d THEN Ok(PyFloat0(1, 1))
    ELSE IF f = "sin" /\ x.k = "fin" THEN Ok(Fin(1, FnTerm(f, x)))
    ELSE Ok(Sym(TrigSign(f, x), 1, FALSE, FnTerm(f, x)))

\* math.tan(x)
FnTan(x) ==
    IF x.k = "nan" THEN Ok(NaN)
    ELSE IF x.k = "inf" THEN Raise("ValueError")
    ELSE IF IsZero(x) THEN Ok(PyFloat0(0, 1))
    ELSE IF x.k = "fin" THEN Ok(Fin(0, FnTerm("tan", x)))
    ELSE Ok(Sym(0, 0, FALSE, FnTerm("tan", x)))

\* math.asin(x), math.acos(x)
FnAsinAcos(f, x) ==
    IF x.k = "nan" THEN Ok(NaN)
    ELSE IF WithinOne(x) = "no" THEN Raise("ValueError")
    ELSE IF WithinOne(x) = "unknown" THEN Unmodelled
    ELSE IF f = "asin"
         THEN (IF IsZero(x) THEN Ok(PyFloat0(0, 1))
               ELSE IF x.k = "fin" THEN Ok(Fin(2, FnTerm(f, x)))
               ELSE Ok(Sym(SgOf(x), 2, IsExact(x) /\ Abs(x.n) = x.d, FnTerm(f, x))))
    ELSE (IF IsOne(x) THEN Ok(PyFloat0(0, 1))
          ELSE IF IsExact(x) \/ x.k = "rad" THEN Ok(Sym(1, 4, x.n < 0, FnTerm(f, x)))
          ELSE Ok(Fin(4, FnTerm(f, x))))

\* math.atan(x)
FnAtan(x) ==
    IF x.k = "nan" THEN Ok(NaN)
    ELSE IF IsZero(x) THEN Ok(PyFloat0(0, 1))
    ELSE IF x.k = "fin" THEN Ok(Fin(2, FnTerm("atan", x)))
    ELSE Ok(Sym(SgOf(x), 2, x.k = "inf", FnTerm("atan", x)))

\* an upper bound of exp(x) for |x| <= hi, 0 when none is kept
ExpBound(hi) == IF hi > 0 /\ hi <= 12 THEN NatPow(3, hi) ELSE 0

\* math.exp(x): OverflowError above 709.78, 0.0 far below zero
FnExp(x) ==
    IF x.k = "nan" THEN Ok(NaN)
    ELSE IF x.k = "inf" THEN Ok(IF x.n = 1 THEN x ELSE PyFloat0(0, 1))
    ELSE IF IsZero(x) THEN Ok(PyFloat0(1, 1))
    ELSE IF IsExact(x)
         THEN LET q == x.n \div x.d
              IN IF q >= 710 \/ (q = 709 /\ 100 * (x.n - 709 * x.d) > 78 * x.d)
                 THEN Raise("OverflowError")
                 ELSE IF q <= -747 THEN Ok(PyFloat0(0, 1))
                 ELSE IF q = -746 THEN Unmodelled
                 ELSE IF q < -40 THEN Ok(Fin(1, FnTerm("exp", x)))
                 ELSE IF q < 0 THEN Ok(Sym(1, 1, FALSE, FnTerm("exp", x)))
                 ELSE Ok(Sym(1, ExpBound(q + 1), TRUE, FnTerm("exp", x)))
    ELSE IF HiOf(x) > 0 /\ HiOf(x) <= 40
         THEN Ok(Sym(1, IF SignOf(x) = -1 THEN 1 ELSE ExpBound(HiOf(x)),
                     SignOf(x) = 1 /\ Lo1Of(x), FnTerm("exp", x)))
    ELSE IF HiOf(x) > 0 /\ HiOf(x) <= 709
         THEN (IF SignOf(x) = 1 THEN Ok(Sym(1, 0, Lo1Of(x), FnTerm("exp", x)))
               ELSE Ok(Fin(0, FnTerm("exp", x))))
    ELSE Unmodelled

\* math.sqrt(x)
FnSqrt(x) ==
    IF x.k = "nan" THEN Ok(NaN)
    ELSE IF IsZero(x) THEN Ok(PyFloat0(0, 1))
    ELSE IF SignOf(x) = -1 THEN Raise("ValueError")
    ELSE IF SignOf(x) = 2 THEN Unmodelled
    ELSE IF x.k = "inf" THEN Ok(x)
    ELSE IF IsExact(x) /\ NatSqrt(x.n) >= 0 /\ NatSqrt(x.d) >= 0
         THEN Ok(PyFloat0(NatSqrt(x.n), NatSqrt(x.d)))
    ELSE Ok(Sym(1, HiOf(x), Lo1Of(x), FnTerm("sqrt", x)))

\* the natural k with 10^k = m, or -1
RECURSIVE Log10Exact(_)
Log10Exact(m) ==
    IF m = 1 THEN 0
    ELSE IF m % 10 # 0 THEN -1
    ELSE LET r == Log10Exact(m \div 10) IN IF r < 0 THEN -1 ELSE r + 1

\* math.log10(x) (f = "log") and math.log(x) (f = "ln")
FnLog(f, x) ==
    IF x.k = "nan" THEN Ok(NaN)
    ELSE IF SignOf(x) \in {-1, 0} THEN Raise("ValueError")
    ELSE IF SignOf(x) = 2 THEN Unmodelled
    ELSE IF x.k = "inf" THEN Ok(x)
    ELSE IF IsOne(x) THEN Ok(PyFloat0(0, 1))
    ELSE IF f = "log" /\ IsExact(x) /\ x.d = 1 /\ Log10Exact(x.n) >= 0
         THEN Ok(PyFloat0(Log10Exact(x.n), 1))
    ELSE IF IsExact(x) \/ x.k = "rad"
         THEN Ok(Sym(IF WithinOne(x) = "yes" THEN -1 ELSE IF Lo1Of(x) THEN 1 ELSE 0,
                     20, FALSE, FnTerm(f, x)))
    ELSE IF Lo1Of(x) THEN Ok(Sym(1, 710, FALSE, FnTerm(f, x)))
    ELSE Ok(Fin(710, FnTerm(f, x)))

\* abs(x)
FnAbs(x) ==
    IF IsExact(x) THEN Ok(Value(x.k, Abs(x.n), x.d, 0, FALSE, <<>>))
    ELSE IF x.k = "complex" THEN Unmodelled
    ELSE IF x.k \in {"inf", "bigint"} THEN Ok(Value(x.k, 1, 1, 0, TRUE, <<>>))
    ELSE IF x.k = "nan" THEN Ok(NaN)
    ELSE IF x.k = "fin" THEN Ok(Fin(x.hi, FnTerm("abs", x)))
    ELSE IF SignOf(x) = 1 /\ x.k = "sym" THEN Ok(x)
    ELSE Ok(Sym(1, HiOf(x), Lo1Of(x), FnTerm("abs", x)))

\* the names of safe_dict (lines 164-172) bound to functions, and to floats
SafeFunctions ==
    { <<"s","i","n">>, <<"c","o","s">>, <<"t","a","n">>,
      <<"a","s","i","n">>, <<"a","c","o","s">>, <<"a","t","a","n">>,
      <<"l","o","g">>, <<"l","n">>, <<"e","x","p">>, <<"s","q","r","t">>,
      <<"a","b","s">>, <<"p","o","w">>,
      <<"r","a","d","i","a","n","s">>, <<"d","e","g","r","e","e","s">> }

PI == <<"p", "i">>
EULER == <<"e">>

\* safe_dict[name]: a value, or NameError
safe_dict(name) ==
    IF name \in SafeFunctions THEN Ok(Func(name))
    ELSE IF name = PI THEN Ok(Sym(1, 4, TRUE, <<"pi">>))
    ELSE IF name = EULER THEN Ok(Sym(1, 3, TRUE, <<"e">>))
    ELSE Raise("NameError")

\* the call f(args) of a value f on a sequence of values
CallValue(f, args) ==
    IF f.k # "func" THEN Raise("TypeError")
    ELSE IF f.t = <<"p","o","w">>
         THEN (IF Len(args) = 2 THEN PowValues(args[1], args[2])
               ELSE IF Len(args) = 3 THEN Unmodelled ELSE Raise("TypeError"))
    ELSE IF Len(args) # 1 THEN Raise("TypeError")
    ELSE IF args[1].k = "func" THEN Raise("TypeError")
    ELSE IF f.t = <<"a","b","s">> THEN FnAbs(args[1])
    ELSE IF args[1].k = "complex" THEN Raise("TypeError")
    ELSE IF args[1].k = "bigint" THEN Raise("OverflowError")
    ELSE IF f.t = <<"s","i","n">> THEN FnSinCos("sin", args[1])
    ELSE IF f.t = <<"c","o","s">> THEN FnSinCos("cos", args[1])
    ELSE IF f.t = <<"t","a","n">> THEN FnTan(args[1])
    ELSE IF f.t = <<"a","s","i","n">> THEN FnAsinAcos("asin", args[1])
    ELSE IF f.t = <<"a","c","o","s">> THEN FnAsinAcos("acos", args[1])
    ELSE IF f.t = <<"a","t","a","n">> THEN FnAtan(args[1])
    ELSE IF f.t = <<"l","o","g">> THEN FnLog("log", args[1])
    ELSE IF f.t = <<"l","n">> THEN FnLog("ln", args[1])
    ELSE IF f.t = <<"e","x","p">> THEN FnExp(args[1])
    ELSE IF f.t = <<"s","q","r","t">> THEN FnSqrt(args[1])
    ELSE IF f.t = <<"r","a","d","i","a","n","s">> THEN FnRadians(args[1])
    ELSE FnDegrees(args[1])

(***************************************************************************)
(* eval(expr, safe_dict, {}): tokens, the expression grammar, evaluation   *)
(***************************************************************************)
\* the repr of a finite float the model does not keep exactly, as one element
\* of a text
FLOAT_REPR == "<float>"

DigitChars == {"0", "1", "2", "3", "4", "5", "6", "7", "8", "9"}
NameChars == {c \in {"_"} \cup DigitChars : TRUE}
                \cup {lowerDigits[i] : i \in 11..36} \cup {digits[i] : i \in 11..36}

\* the characters the tokenizer of the model decides; '=', '<', '[', ... are
\* outside
OpChars == {"+", "-", "*", "/", "%", "(", ")", ","}

\* the letters that start no keyword, literal prefix or literal suffix: a number
\* directly followed by one of them is an invalid literal
SuffixLetters == {"c", "d", "g", "h", "k", "l", "m", "p", "q", "r", "s", "t", "u", "v", "w", "y", "z"}

Token(t, s, v) == [t |-> t, s |-> s, v |-> v]

\* the value of a run of decimal digits (at most nine)
RECURSIVE DecValue(_, _)
DecValue(s, acc) ==
    IF s = <<>> THEN acc ELSE DecValue(Tail(s), acc * 10 + DigitVal(Head(s)))

\* the number token of s[i .. end-1]: integer part s[i .. j1-1], fraction after
\* a point up to j2-1, exponent digits s[k0 .. end-1] when hasExp
NumberToken(s, i, j1, hasDot, j2, hasExp, k0, end) ==
    LET ip == SubSeq(s, i, j1 - 1)
        fp == IF hasDot THEN SubSeq(s, j1 + 1, j2 - 1) ELSE <<>>
        ex == IF hasExp THEN SubSeq(s, k0, end - 1) ELSE <<>>
        negExp == hasExp /\ s[k0 - 1] = "-"
        short == Len(ip) + Len(fp) <= 9 /\ Len(ex) <= 4
        m == DecValue(ip \o fp, 0)
        scale == Pow10(Len(fp))
        e == DecValue(ex, 0)
        tiny == Len(ip) + Len(fp) <= 4 /\ e <= 4
        after == IF end + 1 <= Len(s) THEN s[end + 1] ELSE ""
    IN IF end <= Len(s) /\ s[end] \in NameChars
       THEN (IF s[end] \in SuffixLetters \/ (s[end] \in {"e", "E"} /\ after \notin NameChars)
             THEN Token("bad", <<>>, NaN)
             ELSE Token("unmodelled", <<>>, NaN))
       ELSE IF ~hasDot /\ ~hasExp /\ Len(ip) > 1 /\ Head(ip) = "0"
               /\ \E k \in 1..Len(ip) : ip[k] # "0"
       THEN Token("bad", <<>>, NaN)
       ELSE IF ~short THEN Token("unmodelled", <<>>, NaN)
       ELSE IF ~hasDot /\ ~hasExp
       THEN (IF m <= ExactCap THEN Token("num", <<>>, PyInt0(m))
             ELSE Token("unmodelled", <<>>, NaN))
       ELSE IF ~hasExp \/ e = 0 THEN Token("num", <<>>, MkNum("float", m, scale))
       ELSE IF m = 0 THEN Token("num", <<>>, PyFloat0(0, 1))
       ELSE IF ~negExp /\ e >= 400 THEN Token("num", <<>>, Inf(1))
       ELSE IF negExp /\ e >= 400 THEN Token("num", <<>>, PyFloat0(0, 1))
       ELSE IF tiny
       THEN Token("num", <<>>, IF negExp THEN MkNum("float", m, scale * Pow10(e))
                               ELSE MkNum("float", m * Pow10(e), scale))
       ELSE Token("unmodelled", <<>>, NaN)

\* the tokens of s from position i on
RECURSIVE Tokenize(_, _)
Tokenize(s, i) ==
    IF i > Len(s) THEN <<>>
    ELSE LET c == s[i]
             nxt == IF i + 1 <= Len(s) THEN s[i + 1] ELSE ""
         IN IF IsSpace(c) THEN Tokenize(s, i + 1)
            ELSE IF c = FLOAT_REPR
            THEN <<Token("num", <<>>, Sym(0, 0, FALSE, <<FLOAT_REPR>>))>> \o Tokenize(s, i + 1)
            ELSE IF c \in DigitChars \/ (c = "." /\ nxt \in DigitChars)
            THEN LET j1 == SkipWhile(s, i, DigitChars)
                     hasDot == j1 <= Len(s) /\ s[j1] = "."
                     j2 == IF hasDot THEN SkipWhile(s, j1 + 1, DigitChars) ELSE j1
                     isE == j2 <= Len(s) /\ s[j2] \in {"e", "E"}
                     k0 == IF isE /\ j2 + 1 <= Len(s) /\ s[j2 + 1] \in {"+", "-"}
                           THEN j2 + 2 ELSE j2 + 1
                     hasExp == isE /\ k0 <= Len(s) /\ s[k0] \in DigitChars
                     end == IF hasExp THEN SkipWhile(s, k0, DigitChars) ELSE j2
                 IN <<NumberToken(s, i, j1, hasDot, j2, hasExp, k0, end)>> \o Tokenize(s, end)
            ELSE IF c \in NameChars
            THEN LET j == SkipWhile(s, i, NameChars)
                 IN <<Token("name", SubSeq(s, i, j - 1), NaN)>> \o Tokenize(s, j)
            ELSE IF c = "*" /\ nxt = "*"
            THEN <<Token("op", <<"*", "*">>, NaN)>> \o Tokenize(s, i + 2)
            ELSE IF c = "/" /\ nxt = "/"
            THEN <<Token("unmodelled", <<>>, NaN)>> \o Tokenize(s, i + 2)
            ELSE IF c \in OpChars
            THEN <<Token("op", <<c>>, NaN)>> \o Tokenize(s, i + 1)
            ELSE IF c = "^" THEN <<Token("bad", <<>>, NaN)>> \o Tokenize(s, i + 1)
            ELSE <<Token("unmodelled", <<>>, NaN)>> \o Tokenize(s, i + 1)

\* one instruction of the evaluation order of an expression (postfix):
\*   "push" v | "load" name | "bin" op | "neg" | "pos" | "call" n
Instr(t, s, v, n) == [t |-> t, s |-> s, v |-> v, n |-> n]

\* a parse: ok, the next token position p, the instructions, and um when the
\* model does not decide the construct (a tuple)
Parsed(p, out) == [ok |-> TRUE, um |-> FALSE, p |-> p, out |-> out]
NoParse == [ok |-> FALSE, um |-> FALSE, p |-> 0, out |-> <<>>]
TupleParse == [ok |-> FALSE, um |-> TRUE, p |-> 0, out |-> <<>>]

IsOp(ts, p, ops) == p <= Len(ts) /\ ts[p].t = "op" /\ ts[p].s \in ops

RECURSIVE ParseArith(_, _), ArithRest(_, _), ParseTerm(_, _), TermRest(_, _),
          ParseFactor(_, _), ParsePower(_, _), PowerRest(_, _), ParseTrailers(_, _),
          ParseAtom(_, _), Closing(_, _), ParseArgs(_, _, _, _), ArgsRest(_, _, _, _)

\* the parse left followed by the parse right and the instructions after
Join(left, right, after) ==
    IF ~right.ok THEN right ELSE Parsed(right.p, left.out \o right.out \o after)

\* arith_expr: term (('+' | '-') term)*
ParseArith(ts, p) == ArithRest(ts, ParseTerm(ts, p))

ArithRest(ts, left) ==
    IF ~left.ok \/ ~IsOp(ts, left.p, {<<"+">>, <<"-">>}) THEN left
    ELSE ArithRest(ts, Join(left, ParseTerm(ts, left.p + 1),
                            <<Instr("bin", ts[left.p].s, NaN, 2)>>))

\* term: factor (('*' | '/' | '%') factor)*
ParseTerm(ts, p) == TermRest(ts, ParseFactor(ts, p))

TermRest(ts, left) ==
    IF ~left.ok \/ ~IsOp(ts, left.p, {<<"*">>, <<"/">>, <<"%">>}) THEN left
    ELSE TermRest(ts, Join(left, ParseFactor(ts, left.p + 1),
                           <<Instr("bin", ts[left.p].s, NaN, 2)>>))

\* factor: ('+' | '-') factor | power
ParseFactor(ts, p) ==
    IF IsOp(ts, p, {<<"+">>, <<"-">>})
    THEN Join(Parsed(p, <<>>), ParseFactor(ts, p + 1),
              <<Instr(IF ts[p].s = <<"-">> THEN "neg" ELSE "pos", <<>>, NaN, 1)>>)
    ELSE ParsePower(ts, p)

\* power: atom trailer* ['**' factor]
ParsePower(ts, p) == PowerRest(ts, ParseTrailers(ts, ParseAtom(ts, p)))

\* ['**' factor] after the atom and its trailers a
PowerRest(ts, a) ==
    IF ~a.ok \/ ~IsOp(ts, a.p, {<<"*", "*">>}) THEN a
    ELSE Join(a, ParseFactor(ts, a.p + 1), <<Instr("bin", <<"*", "*">>, NaN, 2)>>)

\* trailer: '(' [arglist] ')'
ParseTrailers(ts, a) ==
    IF ~a.ok \/ ~IsOp(ts, a.p, {<<"(">>}) THEN a
    ELSE ParseTrailers(ts, ParseArgs(ts, a.p + 1, 0, a.out))

\* arglist from position p on, n arguments read; out holds callee and arguments
ParseArgs(ts, p, n, out) ==
    IF IsOp(ts, p, {<<")">>}) THEN Parsed(p + 1, out \o <<Instr("call", <<>>, NaN, n)>>)
    ELSE ArgsRest(ts, n, out, ParseArith(ts, p))

\* what follows the argument arg, the n + 1st of the arglist
ArgsRest(ts, n, out, arg) ==
    IF ~arg.ok THEN arg
    ELSE IF IsOp(ts, arg.p, {<<",">>})
    THEN ParseArgs(ts, arg.p + 1, n + 1, out \o arg.out)
    ELSE IF IsOp(ts, arg.p, {<<")">>})
    THEN Parsed(arg.p + 1, out \o arg.out \o <<Instr("call", <<>>, NaN, n + 1)>>)
    ELSE NoParse

\* atom: NUMBER | NAME | '(' arith_expr ')'
ParseAtom(ts, p) ==
    IF p > Len(ts) THEN NoParse
    ELSE IF ts[p].t = "num" THEN Parsed(p + 1, <<Instr("push", <<>>, ts[p].v, 0)>>)
    ELSE IF ts[p].t = "name" THEN Parsed(p + 1, <<Instr("load", ts[p].s, NaN, 0)>>)
    ELSE IF IsOp(ts, p, {<<"(">>})
         THEN (IF IsOp(ts, p + 1, {<<")">>}) THEN TupleParse
               ELSE Closing(ts, ParseArith(ts, p + 1)))
    ELSE NoParse

\* what follows the expression inner read after '('
Closing(ts, inner) ==
    IF ~inner.ok THEN inner
    ELSE IF IsOp(ts, inner.p, {<<")">>}) THEN Parsed(inner.p + 1, inner.out)
    ELSE IF IsOp(ts, inner.p, {<<",">>}) THEN TupleParse
    ELSE NoParse

\* one binary operation
BinValues(op, a, b) ==
    IF op = <<"+">> THEN AddValues(a, b)
    ELSE IF op = <<"-">> THEN SubValues(a, b)
    ELSE IF op = <<"*">> THEN MulValues(a, b)
    ELSE IF op = <<"/">> THEN DivValues(a, b)
    ELSE IF op = <<"%">> THEN ModValues(a, b)
    ELSE PowValues(a, b)

\* the result of the instruction ins on a stack of values
StepValue(ins, stack) ==
    LET n == Len(stack)
    IN IF ins.t = "push" THEN Ok(ins.v)
       ELSE IF ins.t = "load" THEN safe_dict(ins.s)
       ELSE IF ins.t = "bin" THEN BinValues(ins.s, stack[n - 1], stack[n])
       ELSE IF ins.t = "call"
            THEN CallValue(stack[n - ins.n], SubSeq(stack, n - ins.n + 1, n))
       ELSE IF stack[n].k = "func" THEN Raise("TypeError")
       ELSE IF stack[n].k = "complex" THEN Unmodelled
       ELSE IF ins.t = "neg" THEN Ok(NegValue(stack[n]))
       ELSE Ok(stack[n])

\* the number of values the instruction ins takes off the stack
Used(ins) ==
    IF ins.t \in {"push", "load"} THEN 0
    ELSE IF ins.t = "bin" THEN 2
    ELSE IF ins.t = "call" THEN ins.n + 1
    ELSE 1

\* the instructions from i on, run on a stack of values: the value of the
\* expression, or the first exception raised
RECURSIVE RunFrom(_, _, _), RunNext(_, _, _, _)
RunFrom(code, i, stack) ==
    IF i > Len(code) THEN Ok(stack[Len(stack)])
    ELSE RunNext(code, i, stack, StepValue(code[i], stack))

\* r being the result of instruction i: raise it, or put it on the stack and go on
RunNext(code, i, stack, r) ==
    IF r.e # "" THEN r
    ELSE RunFrom(code, i + 1,
                 Append(SubSeq(stack, 1, Len(stack) - Used(code[i])), r.v))

\* the value of the parse tree of the tokens ts
EvalTree(ts, tree) ==
    IF tree.um THEN Unmodelled
    ELSE IF ~tree.ok \/ tree.p # Len(ts) + 1 THEN Raise("SyntaxError")
    ELSE RunFrom(tree.out, 1, <<>>)

\* the value of the tokens ts
EvalTokens(ts) ==
    IF \E k \in 1..Len(ts) : ts[k].t = "unmodelled" THEN Unmodelled
    ELSE IF \E k \in 1..Len(ts) : ts[k].t = "bad" THEN Raise("SyntaxError")
    ELSE EvalTree(ts, ParseArith(ts, 1))

\* eval(text, safe_dict, {}): Ok(value), or Raise of SyntaxError or of the
\* exception the evaluation raised
PyEval(text) == EvalTokens(Tokenize(text, 1))

(***************************************************************************)
(* ExpressionEvaluator.evaluate                                            *)
(***************************************************************************)
MSG_DOTS == "Vice desetinnych tecek v cisle"
MSG_RESULT == "Neplatny vysledek"
MSG_PYTHON == "<message of the Python exception>"

\* what evaluate does: returns a float (kind = "ok") or raises kind, whose
\* message wraps msg, the message of the exception caught (cause) at the step
\* at; evaluated is the text handed to eval, called says eval was called
Outcome(kind, cause, msg, at, value, evaluated, called) ==
    [kind |-> kind, cause |-> cause, msg |-> msg, at |-> at, value |-> value,
     evaluated |-> evaluated, called |-> called]

\* the except clauses of lines 181-188 on an exception raised in the try block
Reraise(cause, msg, at, evaluated, called) ==
    Outcome(IF cause = "ZeroDivisionError" THEN "ZeroDivisionError"
            ELSE IF cause = "SyntaxError" THEN "SyntaxError"
            ELSE IF cause \in {"ValueError", "TypeError", "NameError"} THEN "ValueError"
            ELSE IF cause = "unmodelled" THEN "unmodelled"
            ELSE "Exception",
            cause, msg, at, NaN, evaluated, called)

\* float(result) of a number that is neither NaN nor infinite
FloatOf(v) == IF v.k = "int" THEN Value("float", v.n, 1, 0, FALSE, <<>>) ELSE v

\* lines 174-188 on what eval(text) gave: the exception it raised is
\* re-raised, its value goes through isnan, isinf and float
FiniteCheck(result, text) ==
    IF result.e # "" THEN Reraise(result.e, MSG_PYTHON, "eval", text, TRUE)
    ELSE IF result.v.k \in {"func", "complex"}
    THEN Reraise("TypeError", MSG_PYTHON, "isnan", text, TRUE)
    ELSE IF result.v.k = "bigint"
    THEN Reraise("OverflowError", MSG_PYTHON, "isnan", text, TRUE)
    ELSE IF result.v.k \in {"nan", "inf"}
    THEN Reraise("ValueError", MSG_RESULT, "isnan", text, TRUE)
    ELSE Outcome("ok", "", "", "return", FloatOf(result.v), text, TRUE)

\* evaluate(expr, angle_mode), mode being the angle_mode
evaluate(expr, mode) ==
    LET clean == sanitize_expression(expr)
        text == DegreesRewrite(ReplaceCaret(clean.s), mode)
    IN IF ~clean.ok THEN Reraise("ValueError", MSG_DOTS, "sanitize", <<>>, FALSE)
       ELSE IF DivZeroSearch(clean.s)
       THEN Reraise("ZeroDivisionError", "Deleni nulou", "search", <<>>, FALSE)
       ELSE FiniteCheck(PyEval(text), text)

\* the decimal digits of r / d (< 1), d a power of two
RECURSIVE DyadicDigits(_, _)
DyadicDigits(r, d) ==
    IF r = 0 THEN <<>>
    ELSE <<digits[(r * 10) \div d + 1]>> \o DyadicDigits((r * 10) % d, d)

\* str(result) of the float evaluate returned
StrOfResult(v) ==
    IF v.k = "float"
    THEN (IF v.n < 0 THEN <<"-">> ELSE <<>>)
         \o NatDigits(Abs(v.n) \div v.d, 10, digits)
         \o <<".">>
         \o (IF Abs(v.n) % v.d = 0 THEN <<"0">> ELSE DyadicDigits(Abs(v.n) % v.d, v.d))
    ELSE <<FLOAT_REPR>>

(***************************************************************************)
(* The converter as a state machine: a text and a source system are given, *)
(* to_decimal runs, then from_decimal runs on its result.                  *)
(***************************************************************************)
\* the characters of the free-form texts
ConvChars == {"0", "1", "9", "A", "b", "I", "X", "-", "_", " ", "."}

RECURSIVE TextsUpTo(_, _)
TextsUpTo(chars, k) ==
    IF k = 0 THEN {<<>>}
    ELSE TextsUpTo(chars, k - 1)
         \cup {Append(t, c) : t \in {u \in TextsUpTo(chars, k - 1) : Len(u) = k - 1}, c \in chars}

FreeTexts == TextsUpTo(ConvChars, MaxTextLen)

\* from_base / to_base as convert_base computes them: 10, 2, 8, 16, -1 for
\* Roman, or the integer typed as the custom radix (1 and 37 are out of range)
Systems == {-1, 1, 37} \cup (2..36)

\* the text of n in radix r: '-' for a negative n, then the digits of |n|, most
\* significant first, upper case, "0" for zero
TextInRadix(n, r) ==
    (IF n < 0 THEN <<"-">> ELSE <<>>) \o NatDigits(Abs(n), r, digits)

NormalTexts(r) == {TextInRadix(n, r) : n \in (-MaxInt)..MaxInt}

(***************************************************************************)
(* The expressions ExpressionEvaluator.evaluate is applied to              *)
(***************************************************************************)
EvalAtoms ==
    { <<"0">>, <<"1">>, <<"2">>, <<"0", ".", "5">>, <<"0", ".", "0">>, <<"9", "0">>,
      <<"7", "1", "0">>, <<"1", "e", "9", "9", "9">>, <<"p", "i">>, <<"f", "o", "o">> }

SmallAtoms == { <<"0">>, <<"1">>, <<"2">>, <<"0", ".", "5">> }

LeadAtoms == { <<"1">>, <<"0", ".", "5">>, <<"0">> }

\* + - * / % and ^ (which line 157 turns into **)
ArithOps == {<<"+">>, <<"-">>, <<"*">>, <<"/">>, <<"%">>}
CARET == <<"^">>
A710 == <<"7", "1", "0">>
API == <<"p", "i">>

CallNames ==
    { <<"s", "i", "n">>, <<"c", "o", "s">>, <<"t", "a", "n">>, <<"a", "s", "i", "n">>,
      <<"a", "c", "o", "s">>, <<"a", "t", "a", "n">>, <<"e", "x", "p">>, <<"s", "q", "r", "t">>,
      <<"l", "n">>, <<"l", "o", "g">>, <<"a", "b", "s">>, <<"r", "a", "d", "i", "a", "n", "s">>,
      <<"d", "e", "g", "r", "e", "e", "s">>, <<"f", "o", "o">> }

MixedNames ==
    { <<"s", "i", "n">>, <<"c", "o", "s">>, <<"t", "a", "n">>, <<"a", "s", "i", "n">>,
      <<"a", "c", "o", "s">>, <<"a", "t", "a", "n">>, <<"e", "x", "p">>, <<"s", "q", "r", "t">>,
      <<"f", "o", "o">> }

NestedNames == { <<"s", "i", "n">>, <<"a", "s", "i", "n">>, <<"e", "x", "p">>, <<"s", "q", "r", "t">> }

Call(f, arg) == f \o <<"(">> \o arg \o <<")">>

EvalSpecials ==
    { <<>>, <<" ">>, <<"1", "+">>, <<"(", "1">>, <<"1", ")">>, <<"s", "i", "n">>,
      <<"p", "i", "(", "1", ")">>, <<"s", "i", "n", "(", "c", "o", "s", "(", "0", ")", ")">>,
      <<"s", "i", "n", "(", "1", ",", "2", ")">>, <<"p", "o", "w", "(", "2", ",", "2", ")">>,
      <<" ", "2", "+", "2", " ">>, <<"2", " ", "2">>, <<"1", ".", "2", ".", "3">>,
      <<"1", ".", "2", ".", "3", "/", "0">>, <<"0", ".", "5", "%", "0", ".", "5">>,
      <<"1", ".", "5", "^", "2", ".", "5">>, <<"-", "1">>, <<"-", "-", "2">>,
      <<"-", "2", "^", "2">>, <<"2", "^", "-", "1">>,
      <<"(", "0", "-", "8", ")", "^", "0", ".", "5">>, <<"2", "^", "3", "^", "2">>,
      <<"1", "/", "0", "0">>, <<"1", "/", "0", "5">>, <<"2", "p", "i">>,
      <<"s", "i", "n", "(", ")">>, <<"1", "/", "(", "2", "-", "2", ")">>, <<"1", "%", "0">>,
      <<"1", "e", "9", "9", "9", "-", "1", "e", "9", "9", "9">>,
      <<"1", "0", "^", "4", "0", "0">>, <<"1", "0", ".", "0", "^", "4", "0", "0">>,
      <<"0", "^", "-", "1">>, <<"s", "i", "n", " ", "9", "0">>,
      <<"s", "i", "n", "(", "9", "0", ")", "+", "c", "o", "s", "(", "0", ")">>,
      <<"s", "i", "n", "(", "3", "0", ")">>, <<"a", "s", "i", "n", "(", "0", ".", "5", ")">>,
      <<"a", "s", "i", "n", "(", "2", ")">>, <<"s", "q", "r", "t", "(", "1", "6", ")">>,
      <<"s", "q", "r", "t", "(", "-", "1", ")">>, <<"l", "o", "g", "(", "1", "0", "0", ")">>,
      <<"l", "o", "g", "(", "0", ")">>, <<"l", "n", "(", "e", ")">>,
      <<"a", "b", "s", "(", "-", "2", ")">>, <<"2", "*", "p", "i">>, <<"1", "/", "3">>,
      <<"0", ".", "1", "+", "0", ".", "2">>, <<"1", "/", "0", ".", "2", "5">>,
      <<"1", "/", " ", "0">>, <<"7", "%", "3">>, <<"-", "7", "%", "3">>,
      <<"7", ".", "5", "%", "2">>, <<"2", "^", "1", "0">>, <<"2", "^", "0", ".", "5">>,
      <<"s", "i", "n", "(", "p", "i", ")">>, <<"(", "(", "1", ")", ")">>, <<"1", "(", "2", ")">>,
      <<"e", "x", "p", "(", "7", "0", "9", ")">>,
      <<"e", "x", "p", "(", "0", "-", "8", "0", "0", ")">>,
      <<"1", "/", "0", "+", "f", "o", "o">>, <<"f", "o", "o", "+", "1", "/", "0">>,
      <<"1", "/", "0", ".", "5", "+", "1", ".", "2", ".", "3">>,
      <<"s", "i", "n", "(", "1", "/", "0", ")">>,
      <<"a", "s", "i", "n", "(", "1", "/", "0", ".", "5", ")">> }

EvalInputs ==
    EvalAtoms
    \cup {a \o op \o b : a \in EvalAtoms, op \in ArithOps, b \in EvalAtoms}
    \cup {a \o CARET \o b : a \in EvalAtoms, b \in EvalAtoms \ {A710}}
    \cup {a \o <<"/", " ">> \o b : a \in SmallAtoms, b \in SmallAtoms}
    \cup {Call(f, a) : f \in CallNames, a \in EvalAtoms}
    \cup {a \o op \o Call(f, b) : a \in LeadAtoms, op \in ArithOps, f \in MixedNames,
                                  b \in EvalAtoms \ {API}}
    \cup {a \o op \o <<"(">> \o b \o p \o c \o <<")">> :
              a \in SmallAtoms, op \in ArithOps, b \in SmallAtoms, p \in ArithOps,
              c \in SmallAtoms}
    \cup {Call(f, Call(g, a)) : f \in NestedNames, g \in NestedNames, a \in {<<"0">>, <<"1">>}}
    \cup EvalSpecials

(***************************************************************************)
(* HistoryManager                                                          *)
(***************************************************************************)
\* add_entry with the pair put in front of the list
add_entry_front(h, expression, result) == <<<<expression, result>>>> \o h

\* add_entry: self.history.append((expression, result))
add_entry(h, expression, result) == Append(h, <<expression, result>>)

\* get_history: [f"{expr} = {result}" for expr, result in self.history]
get_history(h) == [i \in 1..Len(h) |-> h[i][1] \o <<" ", "=", " ">> \o h[i][2]]

\* clear: self.history.clear()
clear(h) == <<>>

CvIdle ==
    /\ cv_text = <<>> /\ cv_base = 10 /\ cv_to = 10
    /\ cv_dec = None /\ cv_out = NoText /\ cv_pc = "idle"

RmIdle ==
    /\ rm_num = 0 /\ rm_text = NoText /\ rm_back = [ok |-> FALSE, val |-> 0]
    /\ rm_pc = "idle"


NoOutcome == Outcome("none", "", "", "", NaN, <<>>, FALSE)

EvIdle == ev_expr = <<>> /\ ev_mode = "deg" /\ ev_out = NoOutcome /\ ev_pc = "idle"

NoCall == [op |-> "none", expression |-> <<>>, result |-> <<>>]
NoReturn == [given |-> FALSE, list |-> <<>>]

HmGhostIdle == hm_call = NoCall /\ hm_ret = NoReturn /\ hm_before = <<>> /\ hm_log = <<>>

HmIdle == history = <<>> /\ HmGhostIdle

NoHandler == [op |-> "none", expression |-> <<>>, mode |-> "deg", kind |-> "", result |-> <<>>,
              before |-> <<>>]

UiIdle ==
    /\ display = <<>> /\ angle_mode = "deg" /\ history_list = <<>>
    /\ ui_error = "" /\ ui_call = NoHandler

(***************************************************************************)
(* The converter: to_decimal runs on a text, then from_decimal on its       *)
(* result                                                                  *)
(***************************************************************************)
CvStart ==
    /\ cv_base \in Systems
    /\ cv_text \in FreeTexts \cup (IF cv_base \in 2..36 THEN NormalTexts(cv_base) ELSE {})
    /\ cv_to = cv_base /\ cv_dec = None /\ cv_out = NoText /\ cv_pc = "start"

\* decimal_value = NumberBaseConverter.to_decimal(input_text, from_base)
ToDecimal ==
    /\ cv_pc = "start"
    /\ cv_dec' = to_decimal(cv_text, cv_base)
    /\ cv_pc' = "dec"
    /\ UNCHANGED <<cv_text, cv_base, cv_to, cv_out, rmVars, evVars, hmVars, uiVars>>

\* result = NumberBaseConverter.from_decimal(decimal_value, to_base)
FromDecimal ==
    /\ cv_pc = "dec"
    /\ cv_dec.ok
    /\ \E tb \in {cv_base, 10, 2, 8, 16, -1, 37} :
          /\ cv_to' = tb
          /\ cv_out' = from_decimal(cv_dec, tb)
    /\ cv_pc' = "out"
    /\ UNCHANGED <<cv_text, cv_base, cv_dec, rmVars, evVars, hmVars, uiVars>>

InitConv == CvStart /\ RmIdle /\ EvIdle /\ HmIdle /\ UiIdle
NextConv == ToDecimal \/ FromDecimal
SpecConv == InitConv /\ [][NextConv]_vars

(***************************************************************************)
(* The Roman codec as a state machine                                      *)
(***************************************************************************)
RmStart ==
    /\ rm_num \in 0..MaxRomanInput
    /\ rm_text = NoText /\ rm_back = [ok |-> FALSE, val |-> 0] /\ rm_pc = "start"

IntToRoman ==
    /\ rm_pc = "start"
    /\ rm_text' = int_to_roman(rm_num)
    /\ rm_pc' = "enc"
    /\ UNCHANGED <<rm_num, rm_back, cvVars, evVars, hmVars, uiVars>>

RomanToInt ==
    /\ rm_pc = "enc"
    /\ rm_text.ok
    /\ rm_back' = roman_to_int(rm_text.s)
    /\ rm_pc' = "dec"
    /\ UNCHANGED <<rm_num, rm_text, cvVars, evVars, hmVars, uiVars>>

InitRoman == RmStart /\ CvIdle /\ EvIdle /\ HmIdle /\ UiIdle
NextRoman == IntToRoman \/ RomanToInt
SpecRoman == InitRoman /\ [][NextRoman]_vars

(***************************************************************************)
(* ExpressionEvaluator.evaluate applied to an expression in an angle mode  *)
(***************************************************************************)
AngleModes == {"deg", "rad"}

EvStart ==
    /\ ev_expr \in EvalInputs /\ ev_mode \in AngleModes
    /\ ev_out = NoOutcome /\ ev_pc = "start"

\* result = ExpressionEvaluator.evaluate(expression, self.angle_mode)
Evaluate ==
    /\ ev_pc = "start"
    /\ ev_out' = evaluate(ev_expr, ev_mode)
    /\ ev_pc' = "done"
    /\ UNCHANGED <<ev_expr, ev_mode, cvVars, rmVars, hmVars, uiVars>>

InitEval == EvStart /\ CvIdle /\ RmIdle /\ HmIdle /\ UiIdle
NextEval == Evaluate
SpecEval == InitEval /\ [][NextEval]_vars

(***************************************************************************)
(* A HistoryManager under add_entry, get_history and clear                 *)
(***************************************************************************)
\* the strings handed to add_entry
HistTexts == {<<>>, <<"2", "+", "2">>, <<"4">>}

\* self.history_manager.add_entry(expression, result)
AddEntry ==
    /\ Len(history) < MaxHist
    /\ \E expression \in HistTexts, result \in HistTexts :
          /\ history' = add_entry(history, expression, result)
          /\ hm_call' = [op |-> "add_entry", expression |-> expression, result |-> result]
          /\ hm_log' = Append(hm_log, <<expression, result>>)
    /\ hm_before' = history
    /\ hm_ret' = NoReturn
    /\ UNCHANGED <<cvVars, rmVars, evVars, uiVars>>

\* self.history_manager.get_history()
GetHistory ==
    /\ hm_ret' = [given |-> TRUE, list |-> get_history(history)]
    /\ hm_call' = [op |-> "get_history", expression |-> <<>>, result |-> <<>>]
    /\ hm_before' = history
    /\ UNCHANGED <<history, hm_log, cvVars, rmVars, evVars, uiVars>>

\* self.history_manager.clear()
Clear ==
    /\ history' = clear(history)
    /\ hm_call' = [op |-> "clear", expression |-> <<>>, result |-> <<>>]
    /\ hm_before' = history
    /\ hm_log' = <<>>
    /\ hm_ret' = NoReturn
    /\ UNCHANGED <<cvVars, rmVars, evVars, uiVars>>

InitHist == HmIdle /\ CvIdle /\ RmIdle /\ EvIdle /\ UiIdle
NextHist == AddEntry \/ GetHistory \/ Clear
SpecHist == InitHist /\ [][NextHist]_vars

(***************************************************************************)
(* CalculatorUI: the display, the angle mode and the history tab           *)
(***************************************************************************)
\* the texts typed into the display
UiInputs ==
    { <<"2", "+", "2">>, <<"1", "/", "0">>, <<"1", "/", "(", "2", "-", "2", ")">>,
      <<"1", ".", "2", ".", "3">>, <<"f", "o", "o">>, <<"2", "+">>,
      <<"e", "x", "p", "(", "7", "1", "0", ")">>, <<"1", "e", "9", "9", "9">>,
      <<"s", "i", "n", "(", "9", "0", ")">> }

ERR_ZERO == "Nelze delit nulou!"
ERR_OTHER == "Chyba: <message of the exception>"

Handler(op, expression, mode, kind, result, before) ==
    [op |-> op, expression |-> expression, mode |-> mode, kind |-> kind, result |-> result,
     before |-> before]

\* the user edits the line edit
TypeText ==
    /\ \E text \in UiInputs : display' = text
    /\ ui_call' = Handler("type", <<>>, angle_mode, "", <<>>, history)
    /\ UNCHANGED <<angle_mode, history_list, ui_error, history, hmGhost, cvVars, rmVars, evVars>>

\* clear_display (lines 401-402)
ClearDisplay ==
    /\ display' = <<>>
    /\ ui_call' = Handler("clear_display", <<>>, angle_mode, "", <<>>, history)
    /\ UNCHANGED <<angle_mode, history_list, ui_error, history, hmGhost, cvVars, rmVars, evVars>>

\* set_angle_mode(mode) (lines 404-405)
SetAngleMode ==
    /\ \E mode \in AngleModes : angle_mode' = mode
    /\ ui_call' = Handler("set_angle_mode", <<>>, angle_mode', "", <<>>, history)
    /\ UNCHANGED <<display, history_list, ui_error, history, hmGhost, cvVars, rmVars, evVars>>

\* calculate with the entry added before the evaluation is known to succeed
CalculateAddsFirst ==
    /\ Len(history) < MaxHist
    /\ \E r \in {evaluate(display, angle_mode)} :
       LET expression == display
           result_str == IF r.kind = "ok" THEN StrOfResult(r.value) ELSE <<>>
       IN IF expression = <<>>
          THEN /\ ui_call' = Handler("calculate", expression, angle_mode, "", <<>>, history)
               /\ UNCHANGED <<display, history, history_list, ui_error>>
          ELSE /\ history' = add_entry(history, expression, result_str)
               /\ history_list' = get_history(history')
               /\ ui_call' = Handler("calculate", expression, angle_mode, r.kind, result_str,
                                     history)
               /\ IF r.kind = "ok"
                  THEN display' = result_str /\ ui_error' = ""
                  ELSE /\ display' = <<>>
                       /\ ui_error' = IF r.kind = "ZeroDivisionError" THEN ERR_ZERO
                                      ELSE ERR_OTHER
    /\ UNCHANGED <<angle_mode, hmGhost, cvVars, rmVars, evVars>>

\* calculate (lines 407-429)
Calculate ==
    /\ Len(history) < MaxHist
    /\ \E r \in {evaluate(display, angle_mode)} :
       LET expression == display
           result_str == StrOfResult(r.value)
       IN IF expression = <<>>
          THEN /\ ui_call' = Handler("calculate", expression, angle_mode, "", <<>>, history)
               /\ UNCHANGED <<display, history, history_list, ui_error>>
          ELSE IF r.kind = "ok"
          THEN /\ history' = add_entry(history, expression, result_str)
               /\ history_list' = get_history(history')
               /\ display' = result_str
               /\ ui_error' = ""
               /\ ui_call' = Handler("calculate", expression, angle_mode, "ok", result_str,
                                     history)
          ELSE /\ ui_error' = IF r.kind = "ZeroDivisionError" THEN ERR_ZERO ELSE ERR_OTHER
               /\ display' = <<>>
               /\ ui_call' = Handler("calculate", expression, angle_mode, r.kind, <<>>, history)
               /\ UNCHANGED <<history, history_list>>
    /\ UNCHANGED <<angle_mode, hmGhost, cvVars, rmVars, evVars>>

\* clear_history (lines 520-522)
ClearHistory ==
    /\ history' = clear(history)
    /\ history_list' = get_history(history')
    /\ ui_call' = Handler("clear_history", <<>>, angle_mode, "", <<>>, history)
    /\ UNCHANGED <<display, angle_mode, ui_error, hmGhost, cvVars, rmVars, evVars>>

InitUI == UiIdle /\ HmIdle /\ CvIdle /\ RmIdle /\ EvIdle
NextUI == TypeText \/ ClearDisplay \/ SetAngleMode \/ Calculate \/ ClearHistory
SpecUI == InitUI /\ [][NextUI]_vars

(***************************************************************************)
(* Claims about NumberBaseConverter                                        *)
(***************************************************************************)
\* the round trip from_decimal(to_decimal(text, b), b) has run on cv_text
RoundTripDone == cv_pc = "out" /\ cv_to = cv_base

\* C3: for every integer n of the range and every base b in {2, 8, 16},
\* from_decimal(to_decimal(text, b), b) returns the normalized base-b text of n
\* it was given.
C3_RoundTrip_2_8_16 ==
    (RoundTripDone /\ cv_base \in {2, 8, 16} /\ cv_text \in NormalTexts(cv_base))
        => cv_out = [ok |-> TRUE, s |-> cv_text]

\* C8: for every integer n of the range and every radix r in 2..36,
\* from_decimal(to_decimal(text, r), r) returns the digits of the radix-r text
\* of n it was given.
C8_RoundTrip_Custom ==
    (RoundTripDone /\ cv_base \in 2..36 /\ cv_text \in NormalTexts(cv_base))
        => (cv_out.ok /\ cv_out.s = cv_text)

\* a character to_decimal must reject in a radix: not a digit of the radix
\* (for decimal the point of a floating literal is allowed)
BadDigit(c, radix) ==
    /\ ~(DigitVal(c) >= 0 /\ DigitVal(c) < radix)
    /\ ~(radix = 10 /\ c = ".")

\* the text is empty or, past one leading sign, holds a character that is not
\* a digit of the radix; for Roman, is empty or holds a character outside
\* I V X L C D M (either case)
InvalidText(text, system) ==
    IF system = -1
    THEN text = <<>> \/ \E i \in 1..Len(text) : roman_values(Upper(text[i])) = 0
    ELSE LET body == IF text # <<>> /\ Head(text) \in {"-", "+"} THEN Tail(text) ELSE text
         IN text = <<>> \/ \E i \in 1..Len(body) : BadDigit(body[i], system)

\* C6: to_decimal returns None for decimal, binary, octal, hexadecimal, Roman
\* and every custom radix 2..36 whenever the text is empty or holds a character
\* that is not valid for the system.
C6_InvalidTextRejected ==
    (cv_pc \in {"dec", "out"} /\ cv_base \in {-1} \cup (2..36) /\ InvalidText(cv_text, cv_base))
        => ~cv_dec.ok

\* C7: for every n in 1..3999, roman_to_int(int_to_roman(n)) = n.
C7_RomanRoundTrip ==
    (rm_pc = "dec" /\ rm_num \in 1..3999) => rm_back = [ok |-> TRUE, val |-> rm_num]

\* 1994 was encoded as MCMXCIV (subtractive pairs) and decoded again
C7_Witness ==
    /\ rm_pc = "dec" /\ rm_num = 1994
    /\ rm_text.s = <<"M", "C", "M", "X", "C", "I", "V">>
    /\ rm_back.ok

(***************************************************************************)
(* Claims about ExpressionEvaluator.evaluate                               *)
(***************************************************************************)
EvalDone == ev_pc = "done"

\* evaluate always decides: no expression of EvalInputs leaves the cases the
\* value records cover
EvalDecided == EvalDone => ev_out.kind # "unmodelled"

\* the error taxonomy of the specification, read off what evaluate raised
ErrorClass(out) ==
    IF out.kind = "ZeroDivisionError" THEN "DivisionByZero"
    ELSE IF out.kind = "SyntaxError" THEN "SyntaxError"
    ELSE IF out.kind = "ValueError" /\ out.msg = MSG_DOTS THEN "MalformedNumber"
    ELSE IF out.kind = "ValueError" /\ out.msg = MSG_RESULT THEN "InvalidResult"
    ELSE IF out.kind = "ValueError" THEN "UndefinedNameOrInvalidValue"
    ELSE "Unclassified"

InverseNames == {<<"a", "s", "i", "n">>, <<"a", "c", "o", "s">>, <<"a", "t", "a", "n">>}

\* text holds, somewhere, a call of an inverse function whose argument starts
\* with the conversion radians(
InverseWrapped(text) ==
    \E i \in 1..Len(text), f \in InverseNames :
        StartsAt(text, i, f \o <<"(">> \o RADIANS \o <<"(">>)

\* C4: in degrees mode only the arguments of sin, cos and tan are wrapped with
\* radians(...): the text handed to the evaluation never holds asin(radians(,
\* acos(radians( or atan(radians( that the expression did not hold; in radians
\* mode the text handed to the evaluation is the trimmed expression with ^
\* replaced.
C4_InverseArgumentUnchanged ==
    (EvalDone /\ ev_out.called) =>
        /\ (~InverseWrapped(ev_expr) => ~InverseWrapped(ev_out.evaluated))
        /\ (ev_mode = "rad" => ev_out.evaluated = ReplaceCaret(Strip(ev_expr)))

\* C5: every failure of evaluate is one of DivisionByZero, MalformedNumber,
\* SyntaxError, UndefinedNameOrInvalidValue, InvalidResult; none reaches the
\* caller as a generic error.
C5_FailuresClassified ==
    (EvalDone /\ ev_out.kind # "ok") => ErrorClass(ev_out) # "Unclassified"

\* the segments of the trimmed text between the characters + - * / ( ): one of
\* them holds two decimal points
MalformedSegment(text) ==
    \E i \in 1..Len(text), j \in 1..Len(text) :
        /\ i < j /\ text[i] = "." /\ text[j] = "."
        /\ \A k \in i..j : text[k] \notin {"+", "-", "*", "/", "(", ")"}

\* '/' , optional blanks, '0', optionally a point and zeros, then a non-digit
\* or the end of the text
LiteralZeroDivisor(text) ==
    \E i \in 1..Len(text) :
        /\ text[i] = "/"
        /\ \E j \in (i + 1)..Len(text) :
              /\ \A k \in (i + 1)..(j - 1) : text[k] = " "
              /\ text[j] = "0"
              /\ \E m \in (j + 1)..(Len(text) + 1) :
                    /\ m > j + 1 => text[j + 1] = "."
                    /\ \A k \in (j + 2)..(m - 1) : text[k] = "0"
                    /\ (m > Len(text) \/ text[m] \notin DigitChars)

\* C9: an expression with a segment of more than one decimal point fails with
\* MalformedNumber, whatever else it holds; an expression that passes that
\* check and holds a division by a literal zero fails with DivisionByZero in
\* either angle mode; in both cases the expression is not evaluated.
C9_ValidationOrder ==
    EvalDone =>
        /\ MalformedSegment(Strip(ev_expr))
              => (ErrorClass(ev_out) = "MalformedNumber" /\ ~ev_out.called)
        /\ (~MalformedSegment(Strip(ev_expr)) /\ LiteralZeroDivisor(Strip(ev_expr)))
              => (ErrorClass(ev_out) = "DivisionByZero" /\ ~ev_out.called)

\* foo+1/0 failed with DivisionByZero and was not evaluated (evaluating it
\* raises NameError first)
C9_Witness ==
    /\ EvalDone /\ ev_expr = <<"f", "o", "o", "+", "1", "/", "0">>
    /\ ErrorClass(ev_out) = "DivisionByZero" /\ ~ev_out.called

\* C10: an expression that passes the malformed-number check and whose
\* evaluation completes, so that no division or modulo in it has a zero
\* divisor, does not fail with DivisionByZero.
C10_OnlyZeroDivisors ==
    LET clean == sanitize_expression(ev_expr)
        direct == PyEval(DegreesRewrite(ReplaceCaret(clean.s), ev_mode))
    IN (EvalDone /\ clean.ok /\ direct.e = "") => ErrorClass(ev_out) # "DivisionByZero"

(***************************************************************************)
(* Claims about HistoryManager                                             *)
(***************************************************************************)
\* the string "expression = result" of a pair
EntryString(pair) == pair[1] \o <<" ", "=", " ">> \o pair[2]

\* C2: get_history returns the strings "expression = result" of the pairs added
\* since the last clear, oldest first, and changes nothing; add_entry appends
\* its pair and leaves the earlier entries as they were; after clear the list
\* is empty.
C2_HistoryLedger ==
    /\ Len(history) = Len(hm_log)
    /\ \A i \in 1..Len(hm_log) : history[i] = hm_log[i]
    /\ hm_call.op = "get_history" =>
          /\ history = hm_before
          /\ Len(hm_ret.list) = Len(hm_log)
          /\ \A i \in 1..Len(hm_log) : hm_ret.list[i] = EntryString(hm_log[i])
    /\ hm_call.op = "add_entry" =>
          /\ Len(history) = Len(hm_before) + 1
          /\ \A i \in 1..Len(hm_before) : history[i] = hm_before[i]
          /\ history[Len(history)] = <<hm_call.expression, hm_call.result>>
    /\ hm_call.op = "clear" => history = <<>> /\ get_history(history) = <<>>

\* ("2+2", "4") then ("4", "") were added and get_history returned both strings
\* in that order
C2_Witness ==
    /\ hm_call.op = "get_history"
    /\ hm_log = << <<<<"2", "+", "2">>, <<"4">>>>, <<<<"4">>, <<>>>> >>
    /\ hm_ret.list = << <<"2", "+", "2", " ", "=", " ", "4">>, <<"4", " ", "=", " ">> >>

(***************************************************************************)
(* Claims about CalculatorUI.calculate and clear_history                   *)
(***************************************************************************)
\* C1: a calculate step on an empty display, or whose evaluation fails with
\* any error, leaves the ledger as it was; a calculate step whose evaluation
\* succeeds appends exactly the entry (expression, str(result)); so every
\* entry of the ledger is an expression that evaluates, with its result.
C1_NoFailedEntries ==
    /\ ui_call.op = "calculate" =>
          IF ui_call.expression # <<>> /\ ui_call.kind = "ok"
          THEN history = Append(ui_call.before, <<ui_call.expression, ui_call.result>>)
          ELSE history = ui_call.before
    /\ \A i \in 1..Len(history) :
          \E mode \in AngleModes :
              LET r == evaluate(history[i][1], mode)
              IN r.kind = "ok" /\ history[i][2] = StrOfResult(r.value)

\* exp(710) failed with a generic error after 2+2 had been recorded: the
\* ledger still holds the one entry ("2+2", "4.0")
C1_Witness ==
    /\ ui_call.op = "calculate"
    /\ ui_call.expression = <<"e", "x", "p", "(", "7", "1", "0", ")">>
    /\ ui_call.kind = "Exception"
    /\ history = << <<<<"2", "+", "2">>, <<"4", ".", "0">>>> >>

====
